---- MODULE Spec2Model ----
(***************************************************************************)
(* A model of the opencode-ignore plugin: the path normalizer, the rule    *)
(* loader, the authorization check, the tool argument mapper, the result   *)
(* filters and the two hooks ("tool.execute.before", "tool.execute.after").*)
(*                                                                         *)
(* A string is a sequence of one-character strings, so that the string     *)
(* operations of the code (split, replace, startsWith, slice, endsWith)    *)
(* are computed character by character.  Paths follow the POSIX flavour of *)
(* Node's path module; patterns follow the gitignore semantics of the      *)
(* "ignore" package the code imports.                                      *)
(***************************************************************************)
EXTENDS Integers, Sequences, FiniteSets, TLC

----------------------------------------------------------------------------
(* Strings *)

SLASH == "/"

BACKSLASH == "\\"

DOT == "."

STAR == "*"

\* The index of the first occurrence of character c in s at or after i, or 0.
RECURSIVE IndexFrom(_, _, _)
IndexFrom(s, c, i) ==
  IF i > Len(s) THEN 0
  ELSE IF s[i] = c THEN i
  ELSE IndexFrom(s, c, i + 1)

\* String.prototype.split(c): the pieces between the occurrences of c,
\* the empty ones included.
RECURSIVE Split(_, _)
Split(s, c) ==
  LET k == IndexFrom(s, c, 1) IN
  IF k = 0 THEN <<s>>
  ELSE <<SubSeq(s, 1, k - 1)>> \o Split(SubSeq(s, k + 1, Len(s)), c)

\* Array.prototype.join("/")
RECURSIVE JoinSegs(_)
JoinSegs(segs) ==
  IF Len(segs) = 0 THEN <<>>
  ELSE IF Len(segs) = 1 THEN segs[1]
  ELSE segs[1] \o <<SLASH>> \o JoinSegs(Tail(segs))

NonEmpty(x) == Len(x) > 0

\* Array.prototype.filter(Boolean) on a list of strings
RECURSIVE FilterNonEmpty(_)
FilterNonEmpty(segs) ==
  IF Len(segs) = 0 THEN <<>>
  ELSE IF NonEmpty(segs[1]) THEN <<segs[1]>> \o FilterNonEmpty(Tail(segs))
  ELSE FilterNonEmpty(Tail(segs))

startsWith(s, prefix) ==
  /\ Len(s) >= Len(prefix)
  /\ SubSeq(s, 1, Len(prefix)) = prefix

endsWith(s, c) == Len(s) > 0 /\ s[Len(s)] = c

\* s.replace(/\\/g, "/")
replaceBackslashes(s) == [i \in 1..Len(s) |-> IF s[i] = BACKSLASH THEN SLASH ELSE s[i]]

----------------------------------------------------------------------------
(* Node's path module, POSIX *)

isAbsolute(p) == Len(p) > 0 /\ p[1] = SLASH

\* normalizeString: resolves "." and ".." segments and drops empty ones.
\* acc is the list of segments kept so far.
RECURSIVE normalizeString(_, _, _)
normalizeString(segs, acc, allowAboveRoot) ==
  IF Len(segs) = 0 THEN acc
  ELSE
    LET s == segs[1]
        rest == Tail(segs)
    IN
    IF s = <<>> \/ s = <<DOT>> THEN normalizeString(rest, acc, allowAboveRoot)
    ELSE IF s = <<DOT, DOT>> THEN
      IF Len(acc) > 0 /\ acc[Len(acc)] # <<DOT, DOT>>
        THEN normalizeString(rest, SubSeq(acc, 1, Len(acc) - 1), allowAboveRoot)
      ELSE IF allowAboveRoot
        THEN normalizeString(rest, Append(acc, s), allowAboveRoot)
      ELSE normalizeString(rest, acc, allowAboveRoot)
    ELSE normalizeString(rest, Append(acc, s), allowAboveRoot)

\* path.normalize
normalize(p) ==
  IF Len(p) = 0 THEN <<DOT>>
  ELSE
    LET abs == isAbsolute(p)
        trailing == endsWith(p, SLASH)
        body == JoinSegs(normalizeString(Split(p, SLASH), <<>>, ~abs))
    IN
    IF Len(body) = 0 THEN (IF abs THEN <<SLASH>> ELSE <<DOT>>)
    ELSE (IF abs THEN <<SLASH>> ELSE <<>>) \o body
         \o (IF trailing THEN <<SLASH>> ELSE <<>>)

\* path.join(a, b): the non-empty arguments joined by "/", then normalized.
join(a, b) ==
  IF Len(a) = 0 /\ Len(b) = 0 THEN <<DOT>>
  ELSE IF Len(a) = 0 THEN normalize(b)
  ELSE IF Len(b) = 0 THEN normalize(a)
  ELSE normalize(a \o <<SLASH>> \o b)

\* path.resolve of one absolute path: its segments, normalized, without a
\* trailing separator.
resolveSegs(p) == normalizeString(Split(p, SLASH), <<>>, FALSE)

\* The length of the longest common prefix of two segment lists.
RECURSIVE commonLen(_, _)
commonLen(a, b) ==
  IF Len(a) = 0 \/ Len(b) = 0 THEN 0
  ELSE IF a[1] = b[1] THEN 1 + commonLen(Tail(a), Tail(b))
  ELSE 0

\* path.relative(from, to), both absolute.
relative(from, to) ==
  LET f == resolveSegs(from)
      t == resolveSegs(to)
      c == commonLen(f, t)
      ups == [i \in 1..(Len(f) - c) |-> <<DOT, DOT>>]
  IN JoinSegs(ups \o SubSeq(t, c + 1, Len(t)))

----------------------------------------------------------------------------
(* The "ignore" package: isPathValid and the compiled rule set *)

\* The number of "." characters s starts with.
RECURSIVE leadingDots(_)
leadingDots(s) ==
  IF Len(s) > 0 /\ s[1] = DOT THEN 1 + leadingDots(Tail(s)) ELSE 0

\* isPathValid(path): a non-empty string that does not match
\* /^\.{0,2}\/|^\.{1,2}$/, that is, not "/x", "./x", "../x", "." or "..".
isPathValid(p) ==
  LET d == leadingDots(p) IN
  /\ Len(p) > 0
  /\ ~(d <= 2 /\ d < Len(p) /\ p[d + 1] = SLASH)
  /\ ~(d = Len(p) /\ d <= 2)

\* A shell glob within one path segment: "*" is [^/]*, "?" is [^/].
RECURSIVE GlobMatch(_, _)
GlobMatch(pat, str) ==
  IF Len(pat) = 0 THEN Len(str) = 0
  ELSE IF pat[1] = STAR THEN
    \/ GlobMatch(Tail(pat), str)
    \/ (Len(str) > 0 /\ GlobMatch(pat, Tail(str)))
  ELSE /\ Len(str) > 0
       /\ (pat[1] = "?" \/ pat[1] = str[1])
       /\ GlobMatch(Tail(pat), Tail(str))

GLOBSTAR == <<STAR, STAR>>

\* A variant of MatchSegs in which a trailing "/**" also matches the folder
\* itself.
RECURSIVE MatchSegs_FolderToo(_, _, _, _)
MatchSegs_FolderToo(pats, segs, dirOnly, isDir) ==
  IF Len(pats) = 0 THEN Len(segs) = 0 /\ (dirOnly => isDir)
  ELSE IF pats[1] = GLOBSTAR THEN
    IF Len(pats) = 1 THEN TRUE
    ELSE
      \E k \in 0..Len(segs) :
        MatchSegs_FolderToo(Tail(pats), SubSeq(segs, k + 1, Len(segs)), dirOnly, isDir)
  ELSE /\ Len(segs) >= 1
       /\ GlobMatch(pats[1], segs[1])
       /\ MatchSegs_FolderToo(Tail(pats), Tail(segs), dirOnly, isDir)

\* The segments of a pattern against the segments of a path.  dirOnly: the
\* pattern ends with "/"; isDir: the path ends with "/".
RECURSIVE MatchSegs(_, _, _, _)
MatchSegs(pats, segs, dirOnly, isDir) ==
  IF Len(pats) = 0 THEN Len(segs) = 0 /\ (dirOnly => isDir)
  ELSE IF pats[1] = GLOBSTAR THEN
    IF Len(pats) = 1 THEN
      \* a trailing "/**" matches everything inside, not the folder itself
      IF dirOnly THEN isDir ELSE Len(segs) >= 1
    ELSE
      \* a leading double star with a slash, or one between two slashes:
      \* zero or more directories
      \E k \in 0..Len(segs) :
        MatchSegs(Tail(pats), SubSeq(segs, k + 1, Len(segs)), dirOnly, isDir)
  ELSE /\ Len(segs) >= 1
       /\ GlobMatch(pats[1], segs[1])
       /\ MatchSegs(Tail(pats), Tail(segs), dirOnly, isDir)

\* A line of the ignore file that makes no rule: blank or a "#" comment.
isSkippedLine(line) == Len(line) = 0 \/ line[1] = "#"

isNegative(line) == Len(line) > 0 /\ line[1] = "!"

\* The pattern of a rule, its leading "!" removed.
patternOf(line) == IF isNegative(line) THEN Tail(line) ELSE line

\* Whether the rule of this line matches the path given as segments.
\* A pattern with a separator at its beginning or middle is relative to the
\* root; any other pattern matches at any level, that is, the last segment.
RuleMatches(line, segs, isDir) ==
  LET pat == patternOf(line)
      dirOnly == endsWith(pat, SLASH)
      core == IF dirOnly THEN SubSeq(pat, 1, Len(pat) - 1) ELSE pat
      anchored == IndexFrom(core, SLASH, 1) # 0
      pats == FilterNonEmpty(Split(core, SLASH))
  IN
  IF anchored THEN MatchSegs(pats, segs, dirOnly, isDir)
  ELSE /\ Len(segs) >= 1
       /\ MatchSegs(pats, <<segs[Len(segs)]>>, dirOnly, isDir)

\* A variant of testOne in which the first rule that matches decides.
RECURSIVE testOne_FirstWins(_, _, _, _)
testOne_FirstWins(rules, segs, isDir, ignored) ==
  IF Len(rules) = 0 THEN ignored
  ELSE IF ~isSkippedLine(rules[1]) /\ RuleMatches(rules[1], segs, isDir)
    THEN ~isNegative(rules[1])
    ELSE testOne_FirstWins(Tail(rules), segs, isDir, ignored)

\* _testOne: the last rule that matches decides.
RECURSIVE testOne(_, _, _, _)
testOne(rules, segs, isDir, ignored) ==
  IF Len(rules) = 0 THEN ignored
  ELSE
    LET line == rules[1] IN
    IF ~isSkippedLine(line) /\ RuleMatches(line, segs, isDir)
      THEN testOne(Tail(rules), segs, isDir, ~isNegative(line))
      ELSE testOne(Tail(rules), segs, isDir, ignored)

\* _t: a path whose parent directory is ignored is ignored; otherwise the
\* rules are tested against the path itself.  k is the number of leading
\* segments under test.
RECURSIVE testPrefix(_, _, _, _)
testPrefix(rules, segs, isDir, k) ==
  IF k = 0 THEN FALSE
  ELSE IF testPrefix(rules, segs, isDir, k - 1) THEN TRUE
  ELSE testOne(rules, SubSeq(segs, 1, k), (k < Len(segs)) \/ isDir, FALSE)

\* ig.ignores(path) for the rule set compiled from the lines of the file.
ignores(rules, p) ==
  LET segs == FilterNonEmpty(Split(p, SLASH)) IN
  testPrefix(rules, segs, endsWith(p, SLASH), Len(segs))

----------------------------------------------------------------------------
(* normalizePath *)

\* The outcome of a call that may throw.
Ok(v) == [ok |-> TRUE, value |-> v]

Thrown(msg) == [ok |-> FALSE, value |-> msg]

\* Step 6 of normalizePath: the trailing "/" of a directory.
withSlash(p, isDirectory) ==
  IF isDirectory /\ p # <<DOT>> /\ ~endsWith(p, SLASH) THEN p \o <<SLASH>> ELSE p

\* Step 5 of normalizePath: the "./" prefix removed.
withoutPrefix(p) == IF startsWith(p, <<DOT, SLASH>>) THEN SubSeq(p, 3, Len(p)) ELSE p

normalizePath(targetPath, projectRoot, isDirectory) ==
  LET absolutePath == IF isAbsolute(targetPath) THEN targetPath
                      ELSE join(projectRoot, targetPath)
      relativePath == relative(projectRoot, absolutePath)
      resolvedPath == IF relativePath = <<>> THEN <<DOT>> ELSE relativePath
      normalizedPath == replaceBackslashes(resolvedPath)
      withSlashPath == withSlash(withoutPrefix(normalizedPath), isDirectory)
  IN
  IF ~isPathValid(withSlashPath)
    THEN Thrown(<<"Invalid path format: ">> \o withSlashPath)
    ELSE Ok(withSlashPath)

----------------------------------------------------------------------------
(* Values of the host runtime *)

\* A missing property of a JavaScript object, where a string is expected.
Undefined == <<"undefined">>

\* JavaScript truthiness of an optional string: neither missing nor "".
Truthy(x) == x # Undefined /\ x # <<>>

\* An optional list property of a tool result: an array, null, or missing.
Arr(items) == [kind |-> "array", items |-> items]

NullValue == [kind |-> "null", items |-> <<>>]

Missing == [kind |-> "undefined", items |-> <<>>]

\* A property that is there but holds no list (a string, say).
NotAList == [kind |-> "string", items |-> <<>>]

\* result?.files && Array.isArray(result.files)
isArray(v) == v.kind = "array"

----------------------------------------------------------------------------
(* isPathBlocked, extractPathFromTool, the result filters *)

\* A variant of isPathBlockedWith that normalizes the path before it looks
\* at the loader's answer.
isPathBlockedWith_NormalizeFirst(loaded, rules, targetPath, projectRoot, isDirectory) ==
  LET normalizedPath == normalizePath(targetPath, projectRoot, isDirectory) IN
  IF ~normalizedPath.ok THEN normalizedPath
  ELSE IF ~loaded THEN Ok(FALSE)
  ELSE Ok(ignores(rules, normalizedPath.value))

\* A variant of isPathBlockedWith that answers false for a path it cannot
\* normalize.
isPathBlockedWith_FailOpen(loaded, rules, targetPath, projectRoot, isDirectory) ==
  IF ~loaded THEN Ok(FALSE)
  ELSE
    LET normalizedPath == normalizePath(targetPath, projectRoot, isDirectory) IN
    IF ~normalizedPath.ok THEN Ok(FALSE)
    ELSE Ok(ignores(rules, normalizedPath.value))

\* isPathBlocked once the loader has returned: false without a rule set
\* (loaded is FALSE), otherwise the verdict of the rule set, given by its
\* lines, on the normalized path.
isPathBlockedWith(loaded, rules, targetPath, projectRoot, isDirectory) ==
  IF ~loaded THEN Ok(FALSE)
  ELSE
    LET normalizedPath == normalizePath(targetPath, projectRoot, isDirectory) IN
    IF ~normalizedPath.ok THEN normalizedPath
    ELSE Ok(ignores(rules, normalizedPath.value))

NoPathInfo == [some |-> FALSE, path |-> <<>>, isDirectory |-> FALSE]

PathInfo(path, isDirectory) == [some |-> TRUE, path |-> path, isDirectory |-> isDirectory]

\* args.path || "."
pathOrDot(args) == IF Truthy(args.path) THEN args.path ELSE <<DOT>>

\* A variant of extractPathFromTool with no default for glob, grep and list.
extractPathFromTool_NoDefault(tool, args) ==
  IF tool \in {"read", "write", "edit"} THEN
    IF Truthy(args.filePath) THEN PathInfo(args.filePath, FALSE) ELSE NoPathInfo
  ELSE IF tool \in {"glob", "grep", "list"} THEN
    IF Truthy(args.path) THEN PathInfo(args.path, TRUE) ELSE NoPathInfo
  ELSE NoPathInfo

extractPathFromTool(tool, args) ==
  IF tool \in {"read", "write", "edit"} THEN
    IF Truthy(args.filePath) THEN PathInfo(args.filePath, FALSE) ELSE NoPathInfo
  ELSE IF tool \in {"glob", "grep", "list"} THEN PathInfo(pathOrDot(args), TRUE)
  ELSE NoPathInfo

\* A variant of keepFile that keeps the entries the rule set ignores.
keepFile_Inverted(filePath, rules, projectRoot) ==
  LET normalized == normalizePath(filePath, projectRoot, FALSE) IN
  IF ~normalized.ok THEN FALSE
  ELSE ignores(rules, normalized.value)

\* A variant of keepFile that keeps an entry whose normalization fails.
keepFile_FailOpen(filePath, rules, projectRoot) ==
  LET normalized == normalizePath(filePath, projectRoot, FALSE) IN
  IF ~normalized.ok THEN TRUE
  ELSE ~ignores(rules, normalized.value)

\* The callback of result.files.filter: try { normalize; !ignores } catch { false }
keepFile(filePath, rules, projectRoot) ==
  LET normalized == normalizePath(filePath, projectRoot, FALSE) IN
  IF ~normalized.ok THEN FALSE
  ELSE ~ignores(rules, normalized.value)

\* A variant of keepMatch that drops a match without a file.
keepMatch_DropsNoFile(match, rules, projectRoot) ==
  IF ~Truthy(match.file) THEN FALSE
  ELSE keepFile(match.file, rules, projectRoot)

\* The callback of result.matches.filter
keepMatch(match, rules, projectRoot) ==
  IF ~Truthy(match.file) THEN TRUE
  ELSE keepFile(match.file, rules, projectRoot)

\* A variant of filterFiles that returns the kept entries last first.
filterFiles_Reversed(files, rules, projectRoot) ==
  LET kept == SelectSeq(files, LAMBDA f : keepFile(f, rules, projectRoot)) IN
  [k \in 1..Len(kept) |-> kept[Len(kept) + 1 - k]]

\* Array.prototype.filter with keepFile
RECURSIVE filterFiles(_, _, _)
filterFiles(files, rules, projectRoot) ==
  IF Len(files) = 0 THEN <<>>
  ELSE (IF keepFile(files[1], rules, projectRoot) THEN <<files[1]>> ELSE <<>>)
       \o filterFiles(Tail(files), rules, projectRoot)

\* Array.prototype.filter with keepMatch
RECURSIVE filterMatches(_, _, _)
filterMatches(matches, rules, projectRoot) ==
  IF Len(matches) = 0 THEN <<>>
  ELSE (IF keepMatch(matches[1], rules, projectRoot) THEN <<matches[1]>> ELSE <<>>)
       \o filterMatches(Tail(matches), rules, projectRoot)

\* A variant of filterGlobResults that answers a result without a files list
\* with an empty one.
filterGlobResults_EmptyOnMalformed(result, rules, projectRoot) ==
  IF ~isArray(result.files) THEN [result EXCEPT !.files = Arr(<<>>)]
  ELSE [result EXCEPT !.files = Arr(filterFiles(result.files.items, rules, projectRoot))]

\* { ...result, files: filteredFiles }
filterGlobResults(result, rules, projectRoot) ==
  IF ~isArray(result.files) THEN result
  ELSE [result EXCEPT !.files = Arr(filterFiles(result.files.items, rules, projectRoot))]

\* { ...result, matches: filteredMatches }
filterGrepResults(result, rules, projectRoot) ==
  IF ~isArray(result.matches) THEN result
  ELSE [result EXCEPT !.matches = Arr(filterMatches(result.matches.items, rules, projectRoot))]

\* A variant of filterResultsWith that filters also without a rule set, as
\* if the rule set were empty.
filterResultsWith_AlwaysFilter(tool, result, loaded, rules, projectRoot) ==
  IF tool = "glob" THEN filterGlobResults(result, rules, projectRoot)
  ELSE IF tool = "grep" THEN filterGrepResults(result, rules, projectRoot)
  ELSE result

\* filterResults once the loader has returned a rule set or null.
filterResultsWith(tool, result, loaded, rules, projectRoot) ==
  IF ~loaded THEN result
  ELSE IF tool = "glob" THEN filterGlobResults(result, rules, projectRoot)
  ELSE IF tool = "grep" THEN filterGrepResults(result, rules, projectRoot)
  ELSE result

\* A variant of accessDeniedMessage that names the path in a cleaned form.
accessDeniedMessage_Canonical(path) ==
  <<"Access denied: ">> \o withoutPrefix(replaceBackslashes(path))
    \o <<" blocked by ignore file. Do NOT try to read this. Access restricted.">>

\* The message of the error the pre-execution hook throws on a blocked path.
accessDeniedMessage(path) ==
  <<"Access denied: ">> \o path
    \o <<" blocked by ignore file. Do NOT try to read this. Access restricted.">>

----------------------------------------------------------------------------
(* The inputs: the project root, paths, ignore files, tools, results *)

\* worktree || directory, fixed at construction: "/w/p"
ProjectRoot == <<"/", "w", "/", "p">>

\* the empty string
P_empty == <<>>

\* "."
P_dot == <<".">>

\* "./"
P_dotSlash == <<".", "/">>

\* the project root, absolute
P_root == <<"/", "w", "/", "p">>

\* the project root with a trailing separator
P_rootSlash == <<"/", "w", "/", "p", "/">>

\* a file (secrets.json)
P_secret == <<"s", ".", "j">>

\* the same file, ./-prefixed
P_secretDot == <<".", "/", "s", ".", "j">>

\* the same file, absolute
P_secretAbs == <<"/", "w", "/", "p", "/", "s", ".", "j">>

\* a file (config.local.json)
P_local == <<"a", ".", "l", ".", "j">>

\* a file (index.ts)
P_index == <<"i", ".", "t">>

\* a directory
P_dir == <<"d">>

\* a file in it
P_dirFile == <<"d", "/", "k">>

\* the same file, backslash-separated
P_dirFileWin == <<"d", "\\", "k">>

\* the directory, with a trailing backslash
P_dirWin == <<"d", "\\">>

\* a directory (bamboo-specs)
P_specs == <<"b">>

\* a file in a nested directory b
P_specsFile == <<"f", "/", "b", "/", "y">>

\* a file directly in the directory b
P_specsTop == <<"b", "/", "y">>

\* a file two levels below a nested directory b
P_specsDeep == <<"f", "/", "b", "/", "g", "/", "y">>

\* a nested directory b
P_specsNested == <<"f", "/", "b">>

\* a path that resolves outside the project root
P_outside == <<".", ".", "/", "x">>

\* an absolute path outside the project root
P_outsideAbs == <<"/", "e">>

Paths ==
  {P_empty, P_dot, P_dotSlash, P_root, P_rootSlash,
   P_secret, P_secretDot, P_secretAbs, P_local, P_index,
   P_dir, P_dirFile, P_dirFileWin, P_dirWin, P_specs, P_specsFile,
   P_specsTop, P_specsDeep, P_specsNested,
   P_outside, P_outsideAbs}

\* The contents an ignore file may have, by name; "none" is no file.
\*   A: a comment, "*.j", "!*.l.j", "d/"
\*   B: "**/b/**", "/d/k"
\*   C: "s.j", "d"
\*   E: "i.t"
\*   N: "*.j", "!s.j", "s.*"
FileLines ==
  [A |-> <<<<"#", " ", "c">>, <<"*", ".", "j">>, <<"!", "*", ".", "l", ".", "j">>, <<"d", "/">>>>,
   B |-> <<<<"*", "*", "/", "b", "/", "*", "*">>, <<"/", "d", "/", "k">>>>,
   C |-> <<<<"s", ".", "j">>, <<"d">>>>,
   E |-> <<<<"i", ".", "t">>>>,
   N |-> <<<<"*", ".", "j">>, <<"!", "s", ".", "j">>, <<"s", ".", "*">>>>]

FileNames == {".aiignore", ".ignore"}

\* The contents each file takes in the model.
Contents(name) == IF name = ".ignore" THEN {"none", "A", "B", "C", "N"} ELSE {"none", "E"}

\* A variant of ignoreFiles with the two candidates of src/index.ts in the
\* other order.
ignoreFiles_IgnoreFirst(v) ==
  IF v = "index" THEN <<".ignore", ".aiignore">> ELSE <<".ignore">>

\* The filenames the loader probes, in order: loadAiIgnore of index.ts
\* tries ".aiignore" then ".ignore"; loadIgnore uses ".ignore".
ignoreFiles(v) == IF v = "index" THEN <<".aiignore", ".ignore">> ELSE <<".ignore">>

Tools == {"read", "write", "edit", "glob", "grep", "list", "bash"}

OptPaths == Paths \cup {Undefined}

\* Tool arguments: filePath and path, each a string or missing.
ArgsSet ==
  {[filePath |-> f, path |-> q] : f \in OptPaths, q \in {Undefined}}
  \cup {[filePath |-> f, path |-> q] : f \in {Undefined}, q \in OptPaths}
  \cup {[filePath |-> f, path |-> q] : f \in {P_secret}, q \in {P_dot, P_dir, P_index}}

\* The longest files or matches list of a tool result.
MaxEntries == 2

SeqsUpTo(S, n) == UNION {[1..k -> S] : k \in 0..n}

\* The entries of a glob result's files list.
GlobEntries == {P_index, P_secret, P_local, P_dirFile, P_outside}

\* The file property of a grep match: missing, empty, or a path.
GrepFiles == {Undefined, P_empty, P_index, P_secret, P_local, P_outside}

Match(f) == [file |-> f]

\* A result object: its files and matches properties.
Result(files, matches) == [files |-> files, matches |-> matches]

NoResult == Result(Missing, Missing)

\* Glob results: every files list of up to MaxEntries entries, and some
\* with a matches list beside it.
GlobResults ==
  {Result(Arr(l), Missing) : l \in SeqsUpTo(GlobEntries, MaxEntries)}
  \cup {Result(Arr(l), Arr(<<Match(P_secret)>>)) :
          l \in {<<>>, <<P_secret>>, <<P_secret, P_index>>}}

\* Grep results: every matches list of up to MaxEntries matches, and some
\* with a files list beside it.
GrepResults ==
  {Result(Missing, Arr(l)) : l \in SeqsUpTo({Match(f) : f \in GrepFiles}, MaxEntries)}
  \cup {Result(Arr(<<P_secret>>), Arr(l)) :
          l \in {<<>>, <<Match(P_secret)>>, <<Match(P_secret), Match(P_index)>>}}

\* Results with no list where the tool's filter looks for one.
MalformedResults == {NoResult, Result(NullValue, NullValue), Result(NotAList, NotAList)}

\* Results handed to the hook for tools other than glob and grep.
OtherResults ==
  MalformedResults
  \cup {Result(Arr(<<P_secret, P_index>>), Missing),
        Result(Missing, Arr(<<Match(P_secret)>>))}

AfterCalls ==
  {<<"glob", r>> : r \in GlobResults \cup OtherResults}
  \cup {<<"grep", r>> : r \in GrepResults \cup OtherResults}
  \cup {<<t, r>> : t \in {"read", "write", "list", "bash"}, r \in OtherResults}

----------------------------------------------------------------------------
(* The filters on the objects of the host: which object is written, which
   one is returned *)

\* A property of a result object: a reference to a list, or a value that is
\* no list.
slot(v, ref) == [kind |-> v.kind, ref |-> IF v.kind = "array" THEN ref ELSE "none"]

\* The objects in play when the hook is called with a result: the object
\* "in" the caller passes, with its lists "inFiles" and "inMatches"; the
\* object "out" and the list "newList" are not yet made. ret names the
\* object the hook returns.
heapOf(result) ==
  [objs |-> [in |-> [files |-> slot(result.files, "inFiles"),
                     matches |-> slot(result.matches, "inMatches")],
             out |-> [files |-> slot(Missing, "none"),
                      matches |-> slot(Missing, "none")]],
   lists |-> [inFiles |-> result.files.items,
              inMatches |-> result.matches.items,
              newList |-> <<>>],
   ret |-> "in"]

\* The value of a property: the list it refers to, or what it holds.
valueOf(h, s) ==
  IF s.kind = "array" THEN Arr(h.lists[s.ref]) ELSE [kind |-> s.kind, items |-> <<>>]

\* The content of the object ref.
valueAt(h, ref) == Result(valueOf(h, h.objs[ref].files), valueOf(h, h.objs[ref].matches))

\* A variant of filterGlobResultsOn that assigns the filtered list to the
\* object it was given and returns that object.
filterGlobResultsOn_InPlace(h, rules, projectRoot) ==
  IF h.objs["in"].files.kind # "array" THEN h
  ELSE [h EXCEPT !.lists["newList"] =
                   filterFiles(h.lists[h.objs["in"].files.ref], rules, projectRoot),
                 !.objs["in"].files = [kind |-> "array", ref |-> "newList"]]

\* filterGlobResults: result.files.filter(...) makes a new list and
\* { ...result, files: filteredFiles } a new object with the other
\* properties of result; a result without a files list is returned itself.
filterGlobResultsOn(h, rules, projectRoot) ==
  IF h.objs["in"].files.kind # "array" THEN h
  ELSE [h EXCEPT !.lists["newList"] =
                   filterFiles(h.lists[h.objs["in"].files.ref], rules, projectRoot),
                 !.objs["out"] = [h.objs["in"] EXCEPT
                                    !.files = [kind |-> "array", ref |-> "newList"]],
                 !.ret = "out"]

\* filterGrepResults, likewise, on the matches list.
filterGrepResultsOn(h, rules, projectRoot) ==
  IF h.objs["in"].matches.kind # "array" THEN h
  ELSE [h EXCEPT !.lists["newList"] =
                   filterMatches(h.lists[h.objs["in"].matches.ref], rules, projectRoot),
                 !.objs["out"] = [h.objs["in"] EXCEPT
                                    !.matches = [kind |-> "array", ref |-> "newList"]],
                 !.ret = "out"]

\* filterResults once the loader has returned.
filterResultsOn(tool, h, loaded, rules, projectRoot) ==
  IF ~loaded THEN h
  ELSE IF tool = "glob" THEN filterGlobResultsOn(h, rules, projectRoot)
  ELSE IF tool = "grep" THEN filterGrepResultsOn(h, rules, projectRoot)
  ELSE h

\* No result object in play.
NoHeap == heapOf(NoResult)

----------------------------------------------------------------------------
(* The state *)

VARIABLES
  variant,  \* which source is running: "index" (src/index.ts) or "final"
  files,    \* the content of each candidate ignore file in the project root
  inv       \* the hook invocation of each caller

vars == <<variant, files, inv>>

Procs == {"p1"}

\* What a caller remembers of its last check: nothing, or the request (hook,
\* tool, arguments, path) and how it ended.
NoPrev ==
  [some |-> FALSE, hook |-> "none", tool |-> "none",
   args |-> [filePath |-> Undefined, path |-> Undefined],
   pathInfo |-> NoPathInfo,
   kind |-> "none", error |-> <<>>, verdict |-> "none"]

\* No invocation running.
Idle ==
  [pc |-> "idle", hook |-> "none", tool |-> "none",
   args |-> [filePath |-> Undefined, path |-> Undefined],
   output |-> NoResult, pathInfo |-> NoPathInfo,
   cand |-> 1, ig |-> "null",
   kind |-> "none", error |-> <<>>, verdict |-> "none", result |-> NoResult,
   heap |-> NoHeap, present |-> FALSE,
   stable |-> TRUE, prev |-> NoPrev]

\* Whether one of the files the loader probes exists.
anyIgnoreFile(v, fs) == \E i \in 1..Len(ignoreFiles(v)) : fs[ignoreFiles(v)[i]] # "none"

Init ==
  /\ variant \in {"index", "final"}
  /\ files \in [FileNames -> {"none", "A", "B", "C", "E", "N"}]
  /\ \A n \in FileNames : files[n] \in Contents(n)
  /\ inv = [p \in Procs |-> Idle]

----------------------------------------------------------------------------
(* The hooks, up to the first access to the ignore file *)

\* A caller that remembers a request repeats that request; one that
\* remembers none makes any request.
mayRequest(prev, hook, tool, args, pathInfo) ==
  prev.some => /\ prev.hook = hook /\ prev.tool = tool
               /\ prev.args = args /\ prev.pathInfo = pathInfo

\* A variant of beforeEntry that calls isPathBlocked before it looks at the
\* path it extracted.
beforeEntry_LoadFirst(tool, args) ==
  [pathInfo |-> extractPathFromTool(tool, args), next |-> "load"]

\* "tool.execute.before": extract the path; skip a tool without one, and
\* the project root; otherwise go on to isPathBlocked.
beforeEntry(tool, args) ==
  LET pathInfo == extractPathFromTool(tool, args) IN
  IF ~pathInfo.some THEN [pathInfo |-> pathInfo, next |-> "done"]
  ELSE IF pathInfo.path = <<DOT>> THEN [pathInfo |-> pathInfo, next |-> "done"]
  ELSE [pathInfo |-> pathInfo, next |-> "load"]

BeforeStart(p, tool, args) ==
  /\ inv[p].pc = "idle"
  /\ mayRequest(inv[p].prev, "before", tool, args, extractPathFromTool(tool, args))
  /\ LET e == beforeEntry(tool, args) IN
     inv' = [inv EXCEPT ![p] =
               [Idle EXCEPT !.hook = "before", !.tool = tool, !.args = args,
                            !.pathInfo = e.pathInfo, !.pc = e.next,
                            !.kind = IF e.next = "done" THEN "return" ELSE "none",
                            !.present = anyIgnoreFile(variant, files),
                            !.prev = inv[p].prev]]
  /\ UNCHANGED <<variant, files>>

\* A call of isPathBlocked(targetPath, projectRoot, isDirectory) itself.
IsPathBlockedStart(p, targetPath, isDirectory) ==
  /\ inv[p].pc = "idle"
  /\ mayRequest(inv[p].prev, "isPathBlocked", "none", Idle.args,
                PathInfo(targetPath, isDirectory))
  /\ inv' = [inv EXCEPT ![p] =
               [Idle EXCEPT !.hook = "isPathBlocked",
                            !.pathInfo = PathInfo(targetPath, isDirectory),
                            !.pc = "load",
                            !.present = anyIgnoreFile(variant, files),
                            !.prev = inv[p].prev]]
  /\ UNCHANGED <<variant, files>>

\* "tool.execute.after" and the head of filterResults: only glob and grep
\* results are filtered.
afterEntry(tool) == IF tool # "glob" /\ tool # "grep" THEN "done" ELSE "load"

AfterStart(p, tool, output) ==
  /\ variant = "final"
  /\ inv[p].pc = "idle"
  /\ ~inv[p].prev.some
  /\ LET next == afterEntry(tool) IN
     inv' = [inv EXCEPT ![p] =
               [Idle EXCEPT !.hook = "after", !.tool = tool, !.output = output,
                            !.pc = next,
                            !.kind = IF next = "done" THEN "return" ELSE "none",
                            !.result = IF next = "done" THEN output ELSE NoResult,
                            !.heap = heapOf(output),
                            !.present = anyIgnoreFile(variant, files)]]
  /\ UNCHANGED <<variant, files>>

----------------------------------------------------------------------------
(* The rule loader: an existence check, then a read *)

\* A variant of LoadExists that answers from what the project root held
\* when the plugin was constructed, taken to be no ignore file.
LoadExists_StartupCache(p) ==
  /\ inv[p].pc = "load"
  /\ inv' = [inv EXCEPT ![p] = [@ EXCEPT !.ig = "null", !.cand = 1, !.pc = "check"]]
  /\ UNCHANGED <<variant, files>>

\* fs.existsSync(ignorePath) / await file.exists() on the current candidate:
\* go on to read it, or to the next candidate, or return null.
LoadExists(p) ==
  /\ inv[p].pc = "load"
  /\ LET names == ignoreFiles(variant)
         c == inv[p].cand
     IN
     inv' = [inv EXCEPT ![p] =
               IF files[names[c]] # "none" THEN [@ EXCEPT !.pc = "read"]
               ELSE IF c < Len(names) THEN [@ EXCEPT !.cand = c + 1]
               ELSE [@ EXCEPT !.ig = "null", !.cand = 1, !.pc = "check"]]
  /\ UNCHANGED <<variant, files>>

\* The message of the error a read of a missing file throws.
readErrorMessage == <<"ENOENT: no such file or directory">>

\* A variant of LoadRead that swallows the error of a failed read and goes
\* on as if there were no ignore file.
LoadRead_Swallow(p) ==
  /\ inv[p].pc = "read"
  /\ LET name == ignoreFiles(variant)[inv[p].cand] IN
     inv' = [inv EXCEPT ![p] =
               IF files[name] = "none"
                 THEN [@ EXCEPT !.ig = "null", !.cand = 1, !.pc = "check"]
                 ELSE [@ EXCEPT !.ig = files[name], !.cand = 1, !.pc = "check"]]
  /\ UNCHANGED <<variant, files>>

\* A variant of LoadRead that turns a failed read into a denial.
LoadRead_Deny(p) ==
  /\ inv[p].pc = "read"
  /\ LET name == ignoreFiles(variant)[inv[p].cand] IN
     inv' = [inv EXCEPT ![p] =
               IF files[name] = "none"
                 THEN [@ EXCEPT !.pc = "done", !.cand = 1, !.kind = "throw",
                                !.error = accessDeniedMessage(inv[p].pathInfo.path),
                                !.verdict = "true"]
                 ELSE [@ EXCEPT !.ig = files[name], !.cand = 1, !.pc = "check"]]
  /\ UNCHANGED <<variant, files>>

\* fs.readFileSync(ignorePath) / await file.text(), then ig.add(content):
\* the rule set of the file's lines; a read of a file no longer there throws.
LoadRead(p) ==
  /\ inv[p].pc = "read"
  /\ LET name == ignoreFiles(variant)[inv[p].cand] IN
     inv' = [inv EXCEPT ![p] =
               IF files[name] = "none"
                 THEN [@ EXCEPT !.pc = "done", !.cand = 1, !.kind = "throw",
                                !.error = readErrorMessage]
                 ELSE [@ EXCEPT !.ig = files[name], !.cand = 1, !.pc = "check"]]
  /\ UNCHANGED <<variant, files>>

----------------------------------------------------------------------------
(* The hooks, once the loader has returned *)

Returned(verdict, result) ==
  [kind |-> "return", error |-> <<>>, verdict |-> verdict, result |-> result,
   heap |-> NoHeap]

Threw(msg, verdict) ==
  [kind |-> "throw", error |-> msg, verdict |-> verdict, result |-> NoResult,
   heap |-> NoHeap]

\* A variant of denyIfBlocked that never throws on a blocked path.
denyIfBlocked_Silent(blocked, path) ==
  IF ~blocked.ok THEN Threw(blocked.value, "none")
  ELSE Returned(IF blocked.value THEN "true" ELSE "false", NoResult)

\* if (blocked) throw new Error(`Access denied: ...`), where blocked is the
\* outcome of isPathBlocked; an error of isPathBlocked propagates.
denyIfBlocked(blocked, path) ==
  IF ~blocked.ok THEN Threw(blocked.value, "none")
  ELSE IF blocked.value THEN Threw(accessDeniedMessage(path), "true")
  ELSE Returned("false", NoResult)

\* The rest of "tool.execute.before".
beforeOutcome(pathInfo, loaded, rules, projectRoot) ==
  denyIfBlocked(isPathBlockedWith(loaded, rules, pathInfo.path, projectRoot,
                                  pathInfo.isDirectory),
                pathInfo.path)

\* A variant of verdictOf that swallows an error of normalizePath and
\* returns no value.
verdictOf_Undefined(blocked) ==
  IF ~blocked.ok THEN Returned("none", NoResult)
  ELSE Returned(IF blocked.value THEN "true" ELSE "false", NoResult)

\* The outcome of a call of isPathBlocked itself.
verdictOf(blocked) ==
  IF ~blocked.ok THEN Threw(blocked.value, "none")
  ELSE Returned(IF blocked.value THEN "true" ELSE "false", NoResult)

isPathBlockedOutcome(pathInfo, loaded, rules, projectRoot) ==
  verdictOf(isPathBlockedWith(loaded, rules, pathInfo.path, projectRoot,
                              pathInfo.isDirectory))

\* The rest of "tool.execute.after".
afterOutcome(tool, output, loaded, rules, projectRoot) ==
  [Returned("none", filterResultsWith(tool, output, loaded, rules, projectRoot))
     EXCEPT !.heap = filterResultsOn(tool, heapOf(output), loaded, rules, projectRoot)]

\* The lines of the rule set the loader returned.
rulesOf(ig) == IF ig = "null" THEN <<>> ELSE FileLines[ig]

\* A variant of outcomeOf that lets a request pass that was denied before.
outcomeOf_AllowRetry(i) ==
  IF i.prev.some /\ i.prev.verdict = "true" THEN Returned("false", NoResult)
  ELSE IF i.hook = "before"
    THEN beforeOutcome(i.pathInfo, i.ig # "null", rulesOf(i.ig), ProjectRoot)
  ELSE IF i.hook = "isPathBlocked"
    THEN isPathBlockedOutcome(i.pathInfo, i.ig # "null", rulesOf(i.ig), ProjectRoot)
  ELSE afterOutcome(i.tool, i.output, i.ig # "null", rulesOf(i.ig), ProjectRoot)

outcomeOf(i) ==
  IF i.hook = "before"
    THEN beforeOutcome(i.pathInfo, i.ig # "null", rulesOf(i.ig), ProjectRoot)
  ELSE IF i.hook = "isPathBlocked"
    THEN isPathBlockedOutcome(i.pathInfo, i.ig # "null", rulesOf(i.ig), ProjectRoot)
  ELSE afterOutcome(i.tool, i.output, i.ig # "null", rulesOf(i.ig), ProjectRoot)

\* The invocation i ended with outcome o.
ended(i, o) ==
  [i EXCEPT !.pc = "done", !.kind = o.kind, !.error = o.error,
            !.verdict = o.verdict, !.result = o.result, !.heap = o.heap]

\* A variant of Finish in which the plugin keeps the last error in a
\* variable all invocations share: a call that ends while another call's
\* error is in it ends in that error.
Finish_SharedError(p) ==
  /\ inv[p].pc = "check"
  /\ inv' = [inv EXCEPT ![p] =
               IF \E q \in DOMAIN inv \ {p} : inv[q].kind = "throw"
                 THEN ended(@, Threw(inv[CHOOSE q \in DOMAIN inv \ {p} :
                                           inv[q].kind = "throw"].error, "none"))
                 ELSE ended(@, outcomeOf(@))]
  /\ UNCHANGED <<variant, files>>

\* A variant of Finish in which the post-execution hook of a tool call
\* filters by the rule set the pre-execution check of the call had loaded.
Finish_PreRules(p) ==
  /\ inv[p].pc = "check"
  /\ inv' = [inv EXCEPT ![p] =
               IF p = "post" /\ "pre" \in DOMAIN inv
                 THEN ended(@, outcomeOf([@ EXCEPT !.ig = inv["pre"].ig]))
                 ELSE ended(@, outcomeOf(@))]
  /\ UNCHANGED <<variant, files>>

Finish(p) ==
  /\ inv[p].pc = "check"
  /\ inv' = [inv EXCEPT ![p] = ended(@, outcomeOf(@))]
  /\ UNCHANGED <<variant, files>>

\* What the caller remembers of the finished call i: a check of a path that
\* ran while the ignore files stayed as they were.
remembered(i) ==
  IF i.hook \in {"before", "isPathBlocked"} /\ i.stable
  THEN [some |-> TRUE, hook |-> i.hook, tool |-> i.tool, args |-> i.args,
        pathInfo |-> i.pathInfo,
        kind |-> i.kind, error |-> i.error, verdict |-> i.verdict]
  ELSE NoPrev

\* The caller takes the outcome; it may then invoke a hook again, and it
\* may keep the outcome in mind to repeat the request.
Return(p, keep) ==
  /\ inv[p].pc = "done"
  /\ inv' = [inv EXCEPT ![p] =
               [Idle EXCEPT !.prev = IF keep THEN remembered(inv[p]) ELSE NoPrev]]
  /\ UNCHANGED <<variant, files>>

----------------------------------------------------------------------------
(* The environment *)

\* Another process creates, rewrites or deletes an ignore file.
WriteFile(name, content) ==
  /\ files[name] # content
  /\ files' = [files EXCEPT ![name] = content]
  /\ inv' = [p \in DOMAIN inv |->
               IF inv[p].pc = "idle" THEN [inv[p] EXCEPT !.prev = NoPrev]
               ELSE IF inv[p].pc = "done"
                 THEN [inv[p] EXCEPT !.stable = FALSE, !.prev = NoPrev]
               ELSE [inv[p] EXCEPT !.present = @ \/ anyIgnoreFile(variant, files'),
                                   !.stable = FALSE, !.prev = NoPrev]]
  /\ UNCHANGED variant

----------------------------------------------------------------------------
(* The specification *)

Next ==
  \/ \E p \in Procs, tool \in Tools, args \in ArgsSet : BeforeStart(p, tool, args)
  \/ \E p \in Procs, targetPath \in Paths, isDirectory \in BOOLEAN :
       IsPathBlockedStart(p, targetPath, isDirectory)
  \/ \E p \in Procs, c \in AfterCalls : AfterStart(p, c[1], c[2])
  \/ \E p \in Procs : LoadExists(p)
  \/ \E p \in Procs : LoadRead(p)
  \/ \E p \in Procs : Finish(p)
  \/ \E p \in Procs, keep \in BOOLEAN : Return(p, keep)
  \/ \E name \in FileNames : \E content \in Contents(name) : WriteFile(name, content)

Spec == Init /\ [][Next]_vars

\* The plugin starts in a project root without an ignore file; every rule
\* set a call loads was written after that.
InitNoFile ==
  /\ Init
  /\ \A n \in FileNames : files[n] = "none"

SpecNoFile == InitNoFile /\ [][Next]_vars

\* Two tool calls of the host in flight at a time.
ProcsPar == {"p1", "p2"}

\* The pre-execution calls, isPathBlocked calls and post-execution calls
\* the two callers make.
ParBefore ==
  {<<"read", [filePath |-> P_secret, path |-> Undefined]>>,
   <<"read", [filePath |-> P_index, path |-> Undefined]>>,
   <<"write", [filePath |-> P_outside, path |-> Undefined]>>,
   <<"glob", [filePath |-> Undefined, path |-> P_dir]>>,
   <<"list", [filePath |-> Undefined, path |-> Undefined]>>,
   <<"bash", [filePath |-> Undefined, path |-> Undefined]>>}

ParPaths == {<<P_secret, FALSE>>, <<P_dir, TRUE>>}

ParAfter ==
  {<<"glob", Result(Arr(<<P_secret, P_index>>), Missing)>>,
   <<"grep", Result(Missing, Arr(<<Match(P_secret), Match(P_outside)>>))>>,
   <<"read", Result(Arr(<<P_secret, P_index>>), Missing)>>}

InitPar ==
  /\ variant \in {"index", "final"}
  /\ files \in [FileNames -> {"none", "A", "B", "C", "E", "N"}]
  /\ \A n \in FileNames : files[n] \in Contents(n)
  /\ inv = [p \in ProcsPar |-> Idle]

\* The hooks run for two callers, their steps interleaved in every order,
\* while no ignore file is written.
NextPar ==
  \/ \E p \in ProcsPar, c \in ParBefore : BeforeStart(p, c[1], c[2])
  \/ \E p \in ProcsPar, c \in ParPaths : IsPathBlockedStart(p, c[1], c[2])
  \/ \E p \in ProcsPar, c \in ParAfter : AfterStart(p, c[1], c[2])
  \/ \E p \in ProcsPar : LoadExists(p)
  \/ \E p \in ProcsPar : LoadRead(p)
  \/ \E p \in ProcsPar : Finish(p)
  \/ \E p \in ProcsPar : Return(p, FALSE)

SpecPar == InitPar /\ [][NextPar]_vars

\* The two hook invocations of one glob or grep call: the pre-execution
\* check and, once it has let the call pass and the tool has run, the
\* post-execution filtering of the tool's result.
ProcsCall == {"pre", "post"}

InitCall ==
  /\ variant = "final"
  /\ files \in [FileNames -> {"none", "A", "B", "C", "E", "N"}]
  /\ \A n \in FileNames : files[n] \in Contents(n)
  /\ inv = [p \in ProcsCall |-> Idle]

\* The pre-execution hook, then the post-execution hook on the same tool;
\* ".ignore" may be written at any time before, between and during them.
NextCall ==
  \/ \E tool \in {"glob", "grep"}, q \in {Undefined, P_dir, P_specs} :
       BeforeStart("pre", tool, [filePath |-> Undefined, path |-> q])
  \/ \E c \in ParAfter :
       /\ inv["pre"].pc = "done" /\ inv["pre"].kind = "return"
       /\ inv["pre"].tool = c[1]
       /\ AfterStart("post", c[1], c[2])
  \/ \E p \in ProcsCall : LoadExists(p)
  \/ \E p \in ProcsCall : LoadRead(p)
  \/ \E p \in ProcsCall : Finish(p)
  \/ \E p \in ProcsCall : Return(p, FALSE)
  \/ \E content \in Contents(".ignore") : WriteFile(".ignore", content)

SpecCall == InitCall /\ [][NextCall]_vars

\* The post-execution hook alone, in src/unnamed/part_000, the only source
\* that has one.
InitAfter == Init /\ variant = "final"

NextAfter ==
  \/ \E p \in Procs, c \in AfterCalls : AfterStart(p, c[1], c[2])
  \/ \E p \in Procs : LoadExists(p)
  \/ \E p \in Procs : LoadRead(p)
  \/ \E p \in Procs : Finish(p)
  \/ \E p \in Procs : Return(p, FALSE)
  \/ \E content \in Contents(".ignore") : WriteFile(".ignore", content)

SpecAfter == InitAfter /\ [][NextAfter]_vars

TypeOK ==
  /\ variant \in {"index", "final"}
  /\ \A n \in FileNames : files[n] \in Contents(n)
  /\ \A p \in Procs :
       /\ inv[p].pc \in {"idle", "load", "read", "check", "done"}
       /\ inv[p].hook \in {"none", "before", "after", "isPathBlocked"}
       /\ inv[p].kind \in {"none", "return", "throw"}
       /\ inv[p].verdict \in {"none", "true", "false"}
       /\ (inv[p].pc = "done") = (inv[p].kind # "none")

----------------------------------------------------------------------------
(* Vocabulary of the claims *)

FileTools == {"read", "write", "edit"}

DirTools == {"glob", "grep", "list"}

Invocations == {inv[p] : p \in DOMAIN inv}

\* The path argument a tool call supplies, as supplied.
suppliedPath(i) == IF i.tool \in FileTools THEN i.args.filePath ELSE i.args.path

\* The kind of path a tool works on.
suppliedIsDirectory(i) == i.tool \in DirTools

\* The rule set the invocation loaded, as the lines of its file.
loadedRules(i) == FileLines[i.ig]

\* The canonical path is valid matcher input and the rule set ignores it.
Blocked(rules, rawPath, isDirectory) ==
  /\ normalizePath(rawPath, ProjectRoot, isDirectory).ok
  /\ ignores(rules, normalizePath(rawPath, ProjectRoot, isDirectory).value)

\* The canonical path is valid matcher input and the rule set lets it pass.
Allowed(rules, rawPath, isDirectory) ==
  /\ normalizePath(rawPath, ProjectRoot, isDirectory).ok
  /\ ~ignores(rules, normalizePath(rawPath, ProjectRoot, isDirectory).value)

\* A finished pre-execution check that got as far as a loaded rule set.
CheckedBefore(i) ==
  /\ i.pc = "done"
  /\ i.hook = "before"
  /\ i.ig # "null"
  /\ \/ i.tool \in FileTools /\ Truthy(i.args.filePath)
     \/ i.tool \in DirTools /\ Truthy(i.args.path) /\ i.args.path # <<DOT>>

----------------------------------------------------------------------------
(* C1 - C6: the pre-execution hook *)

\* C1: a read/write/edit call with a non-empty filePath, or a glob/grep/list
\* call with a path other than ".", whose normalized path the loaded rule set
\* blocks, ends with an error: the hook never returns normally on it.
C1_PreExecutionDeny ==
  \A i \in Invocations :
    (CheckedBefore(i)
     /\ Blocked(loadedRules(i), suppliedPath(i), suppliedIsDirectory(i)))
      => i.kind = "throw"

\* A read of the blocked file "s.j" under rule set A was denied.
C1_Witness ==
  \E i \in Invocations :
    /\ CheckedBefore(i)
    /\ i.tool = "read" /\ i.args.filePath = P_secret /\ i.ig = "A"
    /\ i.kind = "throw"

C3_GracefulDegradation ==
  \A i \in Invocations :
    (i.pc = "done" /\ i.hook \in {"before", "isPathBlocked"} /\ ~i.present)
      => /\ i.kind = "return"
         /\ (i.hook = "isPathBlocked" => i.verdict = "false")

\* isPathBlocked returned false for "../x", which has no canonical form,
\* while no ignore file existed.
C3_Witness ==
  \E i \in Invocations :
    /\ i.pc = "done" /\ i.hook = "isPathBlocked" /\ ~i.present
    /\ i.pathInfo.path = P_outside
    /\ ~normalizePath(P_outside, ProjectRoot, i.pathInfo.isDirectory).ok
    /\ i.verdict = "false"

\* C4: isPathBlocked(".", projectRoot, true) returns false whatever the rule
\* set, also when an ignore file exists (the read of the file succeeding).
C4_RootInviolability ==
  \A i \in Invocations :
    (/\ i.pc = "done" /\ i.hook = "isPathBlocked"
     /\ i.pathInfo.path = <<DOT>> /\ i.pathInfo.isDirectory
     /\ i.error # readErrorMessage)
      => i.kind = "return" /\ i.verdict = "false"

\* The raw path arguments that denote the project root itself.
RootForms == {P_dot, P_empty, P_dotSlash, P_root, P_rootSlash}

\* C5: a glob/grep/list call whose path argument normalizes to the project
\* root is allowed whatever the rule set (the read of the file succeeding).
C5_RootShortCircuit ==
  \A i \in Invocations :
    (/\ i.pc = "done" /\ i.hook = "before" /\ i.tool \in DirTools
     /\ i.args.path \in RootForms
     /\ i.error # readErrorMessage)
      => i.kind = "return"

\* The mapping table of the spec, for the tool and arguments of a call.
TablePathInfo(tool, args) ==
  CASE tool \in FileTools /\ args.filePath # Undefined /\ args.filePath # <<>> ->
         [some |-> TRUE, path |-> args.filePath, isDirectory |-> FALSE]
    [] tool \in FileTools /\ (args.filePath = Undefined \/ args.filePath = <<>>) ->
         NoPathInfo
    [] tool \in DirTools /\ args.path # Undefined /\ args.path # <<>> ->
         [some |-> TRUE, path |-> args.path, isDirectory |-> TRUE]
    [] tool \in DirTools /\ (args.path = Undefined \/ args.path = <<>>) ->
         [some |-> TRUE, path |-> <<DOT>>, isDirectory |-> TRUE]
    [] OTHER -> NoPathInfo

\* C6: extractPathFromTool follows the mapping table for every tool name and
\* argument object.
C6_MappingTable ==
  \A i \in Invocations :
    i.hook = "before" => i.pathInfo = TablePathInfo(i.tool, i.args)

\* The three rows at work: a list call with an empty path was mapped to ".".
C6_Witness ==
  \E i \in Invocations :
    /\ i.hook = "before" /\ i.tool = "list" /\ i.args.path = P_empty
    /\ i.args.filePath = Undefined
    /\ i.pathInfo = [some |-> TRUE, path |-> <<DOT>>, isDirectory |-> TRUE]

----------------------------------------------------------------------------
(* C7 - C10: the post-execution hook *)

\* A finished post-execution filtering of a glob or grep result under a
\* loaded rule set.
Filtered(i, tool) ==
  /\ i.pc = "done"
  /\ i.hook = "after"
  /\ i.tool = tool
  /\ i.ig # "null"

\* out is the selection of the entries of in at the positions in keep, in
\* their order in in.
IsSelection(out, in, keep) ==
  /\ Len(out) = Cardinality(keep)
  /\ \A k \in keep : out[Cardinality({j \in keep : j <= k})] = in[k]

\* C7: the files list of a filtered glob result holds exactly the input
\* entries that, normalized as files, are not blocked, in their input order.
C7_GlobRedaction ==
  \A i \in Invocations :
    (Filtered(i, "glob") /\ isArray(i.output.files))
      => /\ i.kind = "return"
         /\ isArray(i.result.files)
         /\ IsSelection(i.result.files.items, i.output.files.items,
                        {k \in 1..Len(i.output.files.items) :
                           Allowed(loadedRules(i), i.output.files.items[k], FALSE)})

\* A blocked entry before an allowed one: only the allowed one came back.
C7_Witness ==
  \E i \in Invocations :
    /\ Filtered(i, "glob") /\ i.ig = "A"
    /\ i.output.files = Arr(<<P_secret, P_index>>)
    /\ i.result.files = Arr(<<P_index>>)

\* The path has no canonical form: normalizePath throws on it.
Unnormalizable(path) == ~normalizePath(path, ProjectRoot, FALSE).ok

C9_GrepRedaction_AsStated ==
  \A i \in Invocations :
    (Filtered(i, "grep") /\ isArray(i.output.matches))
      => /\ isArray(i.result.matches)
         /\ IsSelection(i.result.matches.items, i.output.matches.items,
                        {k \in 1..Len(i.output.matches.items) :
                           \/ i.output.matches.items[k].file = Undefined
                           \/ Allowed(loadedRules(i), i.output.matches.items[k].file, FALSE)})

\* C9, amended: a match whose file field is missing or empty is kept; a
\* match with a non-empty file is kept iff the file, normalized as a file,
\* is not blocked; the kept matches keep their order.
C9_GrepRedaction ==
  \A i \in Invocations :
    (Filtered(i, "grep") /\ isArray(i.output.matches))
      => /\ i.kind = "return"
         /\ isArray(i.result.matches)
         /\ IsSelection(i.result.matches.items, i.output.matches.items,
                        {k \in 1..Len(i.output.matches.items) :
                           \/ i.output.matches.items[k].file = Undefined
                           \/ i.output.matches.items[k].file = <<>>
                           \/ Allowed(loadedRules(i), i.output.matches.items[k].file, FALSE)})

\* A match of a blocked file and a match with no file: the second was kept.
C9_Witness ==
  \E i \in Invocations :
    /\ Filtered(i, "grep") /\ i.ig = "C"
    /\ i.output.matches = Arr(<<Match(P_secret), Match(Undefined)>>)
    /\ i.result.matches = Arr(<<Match(Undefined)>>)

\* A blocked path is named in a list property of a result.
NamesBlocked(rules, result) ==
  \/ /\ isArray(result.files)
     /\ \E k \in 1..Len(result.files.items) :
          Blocked(rules, result.files.items[k], FALSE)
  \/ /\ isArray(result.matches)
     /\ \E k \in 1..Len(result.matches.items) :
          /\ Truthy(result.matches.items[k].file)
          /\ Blocked(rules, result.matches.items[k].file, FALSE)

\* C10: the object the post-execution hook returns for a glob or grep result
\* under a loaded rule set names no blocked path anywhere in its structure.
C10_NoDisclosure ==
  \A i \in Invocations :
    (Filtered(i, "glob") \/ Filtered(i, "grep"))
      => ~NamesBlocked(loadedRules(i), i.result)

----------------------------------------------------------------------------
(* C11 - C13: what the post-execution hook leaves alone *)

\* A finished post-execution call.
After(i) == i.pc = "done" /\ i.hook = "after"

\* C11: with no ignore file in the project root at any time of the call,
\* the post-execution hook returns the glob or grep result it was given,
\* unchanged, whatever its shape and content.
C11_NoPolicyPassThrough ==
  \A i \in Invocations :
    (After(i) /\ i.tool \in {"glob", "grep"} /\ ~i.present)
      => i.kind = "return" /\ i.result = i.output

\* A glob result that holds "../x", which no rule set would let through,
\* came back whole while no ignore file existed.
C11_Witness ==
  \E i \in Invocations :
    /\ After(i) /\ i.tool = "glob" /\ ~i.present
    /\ i.output.files = Arr(<<P_outside, P_secret>>)
    /\ i.result = i.output

\* The result has not the shape the filter of the tool works on.
Unrecognized(tool, output) ==
  \/ tool \notin {"glob", "grep"}
  \/ tool = "glob" /\ ~isArray(output.files)
  \/ tool = "grep" /\ ~isArray(output.matches)

\* C12: the post-execution hook returns the result unchanged for every tool
\* other than glob and grep, for a glob result whose files property is
\* missing or no list, and for a grep result whose matches property is
\* missing or no list (the read of the ignore file succeeding).
C12_UnrecognizedPassThrough ==
  \A i \in Invocations :
    (After(i) /\ Unrecognized(i.tool, i.output) /\ i.error # readErrorMessage)
      => i.kind = "return" /\ i.result = i.output


\* A glob result whose files property is a string went through the filter,
\* under a loaded rule set, and came back as it was.
C12_Witness ==
  \E i \in Invocations :
    /\ After(i) /\ i.tool = "glob" /\ i.ig = "A"
    /\ i.output = Result(NotAList, NotAList)
    /\ i.kind = "return" /\ i.result = i.output


\* The filter of the tool built a new list from the one it was given.
Rebuilt(i) ==
  /\ i.kind = "return"
  /\ i.ig # "null"
  /\ \/ i.tool = "glob" /\ isArray(i.output.files)
     \/ i.tool = "grep" /\ isArray(i.output.matches)

\* C13: after a post-execution call the object the caller passed and its
\* files and matches lists hold what they held before; when a filter has
\* run, the object returned is another object, its filtered list another
\* list, and its other property is that of the object passed.
C13_NoMutation ==
  \A i \in Invocations :
    After(i) =>
      /\ i.heap.objs["in"] = heapOf(i.output).objs["in"]
      /\ i.heap.lists["inFiles"] = i.output.files.items
      /\ i.heap.lists["inMatches"] = i.output.matches.items
      /\ i.kind = "return" => valueAt(i.heap, i.heap.ret) = i.result
      /\ Rebuilt(i) =>
           /\ i.heap.ret # "in"
           /\ i.tool = "glob" =>
                /\ i.heap.objs[i.heap.ret].files.ref \notin {"inFiles", "inMatches"}
                /\ i.heap.objs[i.heap.ret].matches = i.heap.objs["in"].matches
           /\ i.tool = "grep" =>
                /\ i.heap.objs[i.heap.ret].matches.ref \notin {"inFiles", "inMatches"}
                /\ i.heap.objs[i.heap.ret].files = i.heap.objs["in"].files

\* A glob result of a blocked and an allowed file, with a matches list
\* beside it: the list passed still holds both, the new one only the
\* allowed file, and the new object shares the matches list.
C13_Witness ==
  \E i \in Invocations :
    /\ After(i) /\ i.tool = "glob" /\ i.ig = "A"
    /\ i.output = Result(Arr(<<P_secret, P_index>>), Arr(<<Match(P_secret)>>))
    /\ i.heap.ret = "out"
    /\ i.heap.lists["inFiles"] = <<P_secret, P_index>>
    /\ i.heap.lists["newList"] = <<P_index>>
    /\ i.heap.objs["out"].matches.ref = "inMatches"


----------------------------------------------------------------------------
(* C14 - C20: normalization and matching *)

\* A finished call in which normalizePath returned a string: a rule set was
\* loaded and the call ended with a verdict.
Normalized(i) ==
  /\ i.pc = "done"
  /\ i.hook \in {"before", "isPathBlocked"}
  /\ i.ig # "null"
  /\ i.verdict \in {"true", "false"}

\* The string normalizePath returned in the call.
normalizedOf(i) == normalizePath(i.pathInfo.path, ProjectRoot, i.pathInfo.isDirectory).value

HasBackslash(s) == \E k \in 1..Len(s) : s[k] = BACKSLASH

\* C14: every string normalizePath returns is a relative path, without a
\* backslash, without a "./" prefix, that ends with "/" if and only if the
\* kind is Directory and the path is not the project root.
C14_CanonicalForm ==
  \A i \in Invocations :
    Normalized(i) =>
      /\ normalizedOf(i) # <<>>
      /\ ~isAbsolute(normalizedOf(i))
      /\ ~HasBackslash(normalizedOf(i))
      /\ ~startsWith(normalizedOf(i), <<DOT, SLASH>>)
      /\ endsWith(normalizedOf(i), SLASH)
           <=> (i.pathInfo.isDirectory /\ normalizedOf(i) # <<DOT>>)


\* The forms in which a caller may write the relative path p: as it is,
\* with a "./" prefix, absolute, and with backslashes for separators.
dotForm(p) == <<DOT, SLASH>> \o p

absForm(p) == ProjectRoot \o <<SLASH>> \o p

winForm(p) == [k \in 1..Len(p) |-> IF p[k] = SLASH THEN BACKSLASH ELSE p[k]]

Forms(p) == {p, dotForm(p), absForm(p), winForm(p)}

\* a directory, with a trailing separator
P_dirSlash == <<"d", "/">>

\* Relative paths inside the project root.
RelPaths == {P_secret, P_local, P_index, P_dir, P_dirSlash, P_dirFile, P_specs, P_specsFile}

\* A finished check of a path, the read of the ignore file succeeding.
Checked(i) ==
  /\ i.pc = "done"
  /\ i.hook \in {"before", "isPathBlocked"}
  /\ i.pathInfo.some
  /\ i.error # readErrorMessage

\* The same check, of the same kind and under the same rule set, on the
\* path q: the outcome of the hook or of isPathBlocked.
outcomeOn(i, q) == outcomeOf([i EXCEPT !.pathInfo.path = q])

\* C15: for a relative path p inside the project root and either kind, a
\* check of one form of p normalizes to the same string, gets the same
\* verdict from isPathBlocked and the same allow or deny from the hook as a
\* check of every other form of p.
C15_FormEquivalence ==
  \A i \in Invocations :
    Checked(i) =>
      \A p \in RelPaths :
        i.pathInfo.path \in Forms(p) =>
          \A q \in Forms(p) :
            /\ normalizePath(q, ProjectRoot, i.pathInfo.isDirectory)
                 = normalizePath(i.pathInfo.path, ProjectRoot, i.pathInfo.isDirectory)
            /\ outcomeOn(i, q).kind = i.kind
            /\ outcomeOn(i, q).verdict = i.verdict


\* A finished call of isPathBlocked on the path "d" under the rule set ig.
CheckedDir(i, ig) ==
  /\ i.pc = "done" /\ i.hook = "isPathBlocked"
  /\ i.pathInfo.path = P_dir
  /\ i.ig = ig

\* The rule "d/" blocks "d" as a Directory and not as a File; the rule "d"
\* blocks both. (Rule set A holds "d/" and rule set C holds "d"; their
\* other lines match no path named d.)
DirectoryFileExample ==
  \A i \in Invocations :
    /\ CheckedDir(i, "A") =>
         i.verdict = (IF i.pathInfo.isDirectory THEN "true" ELSE "false")
    /\ CheckedDir(i, "C") => i.verdict = "true"

\* The matcher sees a trailing "/" exactly when the caller passed Directory.
KindDecidesSlash ==
  \A i \in Invocations :
    Normalized(i) => (endsWith(normalizedOf(i), SLASH) <=> i.pathInfo.isDirectory)

\* C16: with the rule "foo/", isPathBlocked("foo", root, File) is false and
\* isPathBlocked("foo", root, Directory) is true; with the rule "foo" both
\* are true; and the kind the caller passes alone decides the trailing
\* slash the matcher sees.
C16_DirectoryFileDistinction == DirectoryFileExample /\ KindDecidesSlash


\* The segments of a normalized path.
segsOf(p) == FilterNonEmpty(Split(p, SLASH))

\* The rules of the rule set that match the normalized path p.
Matching(rules, p) ==
  {k \in 1..Len(rules) :
     ~isSkippedLine(rules[k]) /\ RuleMatches(rules[k], segsOf(p), endsWith(p, SLASH))}

\* The last of them in file order.
LastMatching(rules, p) ==
  CHOOSE k \in Matching(rules, p) : \A j \in Matching(rules, p) : j <= k

\* A parent directory of p is excluded by the rule set.
ParentExcluded(rules, p) ==
  testPrefix(rules, segsOf(p), endsWith(p, SLASH), Len(segsOf(p)) - 1)

\* Rules match p itself and no parent directory of p is excluded.
DecidedByRules(rules, p) ==
  /\ Matching(rules, p) # {}
  /\ ~ParentExcluded(rules, p)

\* What the last matching rule says: blocked unless it is negated.
LastRuleBlocks(rules, p) == ~isNegative(rules[LastMatching(rules, p)])

\* The normalized form of a result entry.
asFile(path) == normalizePath(path, ProjectRoot, FALSE).value

\* Entry k of the list is among the entries kept.
Kept(kept, entry) == \E j \in 1..Len(kept) : kept[j] = entry

\* C17: when rules of the rule set match a path and no parent directory of
\* the path is excluded, the last matching rule in file order decides:
\* blocked if it is plain, not blocked if it is negated; in the verdict of
\* the pre-execution check and of isPathBlocked, and in what the glob and
\* grep filters keep.
C17_NegationPrecedence ==
  \A i \in Invocations :
    /\ (Normalized(i) /\ DecidedByRules(loadedRules(i), normalizedOf(i)))
         => (i.verdict = "true" <=> LastRuleBlocks(loadedRules(i), normalizedOf(i)))
    /\ (Filtered(i, "glob") /\ isArray(i.output.files))
         => \A k \in 1..Len(i.output.files.items) :
              (/\ ~Unnormalizable(i.output.files.items[k])
               /\ DecidedByRules(loadedRules(i), asFile(i.output.files.items[k])))
                => (Kept(i.result.files.items, i.output.files.items[k])
                      <=> ~LastRuleBlocks(loadedRules(i), asFile(i.output.files.items[k])))
    /\ (Filtered(i, "grep") /\ isArray(i.output.matches))
         => \A k \in 1..Len(i.output.matches.items) :
              (/\ Truthy(i.output.matches.items[k].file)
               /\ ~Unnormalizable(i.output.matches.items[k].file)
               /\ DecidedByRules(loadedRules(i), asFile(i.output.matches.items[k].file)))
                => (Kept(i.result.matches.items, i.output.matches.items[k])
                      <=> ~LastRuleBlocks(loadedRules(i), asFile(i.output.matches.items[k].file)))

\* "*.j" then "!*.l.j": of a grep result with a match in "s.j" and one in
\* "a.l.j", which both rules match, only the second came back.
C17_Witness ==
  \E i \in Invocations :
    /\ Filtered(i, "grep") /\ i.ig = "A"
    /\ i.output.matches = Arr(<<Match(P_secret), Match(P_local)>>)
    /\ Cardinality(Matching(loadedRules(i), P_local)) = 2
    /\ i.result.matches = Arr(<<Match(P_local)>>)


\* The name X of the rule "**/X/**" of rule set B.
X == <<"b">>

\* The path, given by its segments, lies below a directory named X.
BelowX(segs) == \E k \in 1..(Len(segs) - 1) : segs[k] = X

\* The path is a directory named X that lies below no directory named X.
IsX(segs) == Len(segs) >= 1 /\ segs[Len(segs)] = X /\ ~BelowX(segs)

\* A finished pre-execution check under rule set B, the read of the ignore
\* file succeeding, of a path that can be normalized.
CheckedUnderB(i) ==
  /\ Checked(i) /\ i.hook = "before"
  /\ i.ig = "B"
  /\ normalizePath(i.pathInfo.path, ProjectRoot, i.pathInfo.isDirectory).ok

\* C18: under the rule "**/X/**" a read, write or edit of a file at any
\* depth below a directory named X is denied, and a glob, grep or list of
\* the directory X itself is allowed.
C18_ContentsOnly ==
  \A i \in Invocations :
    CheckedUnderB(i) =>
      /\ (i.tool \in FileTools /\ BelowX(segsOf(normalizedOf(i))))
           => i.kind = "throw" /\ i.verdict = "true"
      /\ (i.tool \in DirTools /\ IsX(segsOf(normalizedOf(i))))
           => i.kind = "return"

\* A list of the nested directory "f/b" was allowed under "**/b/**".
C18_Witness ==
  \E i \in Invocations :
    /\ CheckedUnderB(i)
    /\ i.tool = "list" /\ i.args.path = P_specsNested
    /\ IsX(segsOf(normalizedOf(i)))
    /\ i.kind = "return" /\ i.verdict = "false"


\* A finished check that repeats the caller's last request, the ignore files
\* having stayed as they were from the start of that request on.
Retry(i) ==
  /\ i.pc = "done"
  /\ i.hook \in {"before", "isPathBlocked"}
  /\ i.stable
  /\ i.prev.some
  /\ i.prev.hook = i.hook /\ i.prev.tool = i.tool
  /\ i.prev.args = i.args /\ i.prev.pathInfo = i.pathInfo

\* C19: while the ignore files do not change, a repeated isPathBlocked call
\* and a repeated pre-execution call with the same tool and arguments end
\* as the call before them did: same return or error, same verdict, same
\* message; a denied request is denied again.
C19_Idempotence ==
  \A i \in Invocations :
    Retry(i) =>
      /\ i.kind = i.prev.kind
      /\ i.verdict = i.prev.verdict
      /\ i.error = i.prev.error

\* A read that was denied was tried again and denied again.
C19_Witness ==
  \E i \in Invocations :
    /\ Retry(i)
    /\ i.hook = "before" /\ i.tool = "read" /\ i.args.filePath = P_secret
    /\ i.prev.kind = "throw" /\ i.prev.verdict = "true"
    /\ i.kind = "throw" /\ i.verdict = "true"


\* A finished call of isPathBlocked itself.
IsPathBlockedDone(i) == i.pc = "done" /\ i.hook = "isPathBlocked"

\* C20, as stated: every call of isPathBlocked ends with a boolean verdict
\* (the read of the ignore file succeeding).
C20_DefiniteVerdict ==
  \A i \in Invocations :
    (IsPathBlockedDone(i) /\ i.error # readErrorMessage)
      => (i.kind = "return" /\ i.verdict \in {"true", "false"})

\* The call ended in the error of normalizePath: a rule set was loaded and
\* the path is no valid input of the matcher.
InvalidPathError(i) ==
  /\ i.kind = "throw"
  /\ i.ig # "null"
  /\ ~normalizePath(i.pathInfo.path, ProjectRoot, i.pathInfo.isDirectory).ok
  /\ i.error = normalizePath(i.pathInfo.path, ProjectRoot, i.pathInfo.isDirectory).value

\* The call ended in the error of the read of an ignore file that was
\* removed after the loader had found it.
ReadError(i) == i.kind = "throw" /\ i.error = readErrorMessage

\* The call returned a boolean: false without a rule set, otherwise the
\* verdict of the rule set on a path that could be normalized.
BooleanVerdict(i) ==
  /\ i.kind = "return"
  /\ i.verdict \in {"true", "false"}
  /\ i.ig = "null" => i.verdict = "false"
  /\ i.ig # "null" =>
       normalizePath(i.pathInfo.path, ProjectRoot, i.pathInfo.isDirectory).ok

\* The three ends a call of isPathBlocked has.
DefiniteOutcome ==
  \A i \in Invocations :
    IsPathBlockedDone(i) => (BooleanVerdict(i) \/ InvalidPathError(i) \/ ReadError(i))

\* The number of steps a call has at most before it ends: one for the rest
\* of the check, one for the read, and an existence check for each file the
\* loader has still to probe.
stepsLeft(v, i) ==
  CASE i.pc = "load" -> 2 + (Len(ignoreFiles(v)) - i.cand + 1)
    [] i.pc = "read" -> 2
    [] i.pc = "check" -> 1
    [] OTHER -> 0

\* Every step of a running call brings it nearer to its end.
Terminates ==
  \A p \in Procs :
    (/\ inv[p].pc \in {"load", "read", "check"}
     /\ (inv'[p].pc # inv[p].pc \/ inv'[p].cand # inv[p].cand))
      => stepsLeft(variant, inv'[p]) < stepsLeft(variant, inv[p])

\* C20, amended: every call of isPathBlocked ends after a bounded number of
\* steps, and it ends in one of three ways: with a boolean verdict (false
\* when there is no rule set), with the error "Invalid path format" when a
\* rule set is loaded and the path cannot be normalized, or with the error
\* of a failed read of the ignore file. It never returns anything but a
\* boolean.
C20_DefiniteOutcome == []DefiniteOutcome /\ [][Terminates]_vars

\* A call on "../x" under a loaded rule set ended in "Invalid path format".
C20_Witness ==
  \E i \in Invocations :
    /\ IsPathBlockedDone(i)
    /\ i.pathInfo.path = P_outside
    /\ InvalidPathError(i)

----------------------------------------------------------------------------
(* C21 - C22: errors *)

\* A finished pre-execution check of a path, other than the literal ".",
\* that normalizePath rejects.
InvalidPathCheck(i) ==
  /\ i.pc = "done"
  /\ i.hook = "before"
  /\ i.pathInfo.some
  /\ i.pathInfo.path # <<DOT>>
  /\ ~normalizePath(i.pathInfo.path, ProjectRoot, i.pathInfo.isDirectory).ok

\* C21, as stated: every read/write/edit/glob/grep/list call whose path
\* cannot be normalized ends with an error; the hook never returns normally
\* on it.
C21_NeverFailsOpen ==
  \A i \in Invocations : InvalidPathCheck(i) => i.kind = "throw"

\* C21, amended: once a rule set is loaded, every read/write/edit/glob/
\* grep/list call whose path cannot be normalized ends with the error
\* "Invalid path format: <normalized path>" and with no verdict; with no
\* ignore file the hook returns normally on such a path.
C21_InvalidPathRaises ==
  \A i \in Invocations :
    InvalidPathCheck(i) =>
      /\ i.ig # "null" =>
           /\ i.kind = "throw"
           /\ i.verdict = "none"
           /\ i.error = normalizePath(i.pathInfo.path, ProjectRoot,
                                      i.pathInfo.isDirectory).value
      /\ (i.ig = "null" /\ i.error # readErrorMessage) => i.kind = "return"

\* A write to "../x", outside the project root, under a loaded rule set
\* ended in "Invalid path format: ../x".
C21_Witness ==
  \E i \in Invocations :
    /\ InvalidPathCheck(i) /\ i.ig # "null"
    /\ i.tool = "write" /\ i.args.filePath = P_outside
    /\ i.kind = "throw"
    /\ i.error = <<"Invalid path format: ">> \o P_outside

\* The read of the file the loader has found is about to fail in the hook
\* invocation i: the file is no longer there.
ReadFails(v, fs, i) ==
  /\ i.pc = "read"
  /\ i.hook \in {"before", "after"}
  /\ fs[ignoreFiles(v)[i.cand]] = "none"

\* The invocation ended in the error of the read: no verdict, no result, no
\* rule set.
RaisedReadError(i) ==
  /\ i.pc = "done"
  /\ i.kind = "throw"
  /\ i.error = readErrorMessage
  /\ i.verdict = "none"
  /\ i.result = NoResult
  /\ i.ig = "null"

\* The step a hook takes from a failing read ends the hook in the error.
ReadFailureRaises ==
  \A p \in DOMAIN inv :
    (ReadFails(variant, files, inv[p]) /\ inv'[p].pc # "read")
      => RaisedReadError(inv'[p])

\* No hook invocation that carries the error of a read has returned.
ReadErrorNotSwallowed ==
  \A i \in Invocations :
    (i.hook \in {"before", "after"} /\ i.error = readErrorMessage)
      => RaisedReadError(i)

\* C22: when the ignore file exists but the read of it fails, the
\* pre-execution hook ends in the error of the read, and so does the
\* post-execution hook, which returns no result, filtered or unfiltered;
\* neither goes on as if there were no ignore file.
C22_BrokenPolicyRaises == []ReadErrorNotSwallowed /\ [][ReadFailureRaises]_vars

\* The filtering of a glob result that names a blocked file ended in the
\* error of the read; the unfiltered result was not returned.
C22_Witness ==
  \E i \in Invocations :
    /\ i.hook = "after" /\ i.tool = "glob"
    /\ i.output.files = Arr(<<P_secret, P_index>>)
    /\ RaisedReadError(i)
    /\ i.result # i.output

----------------------------------------------------------------------------
(* C23 - C24, C26 - C29: the ignore file and the time of its reading *)

\* A finished call during which no ignore file was written: the files are
\* now what they were all through the call.
DoneStable(i) == i.pc = "done" /\ i.stable

\* The call let everything pass: the hook returned, isPathBlocked said
\* false, the filter returned the result it was given.
AllAllowed(i) ==
  /\ i.kind = "return"
  /\ i.hook = "isPathBlocked" => i.verdict = "false"
  /\ i.hook = "after" => i.result = i.output

\* C23: the loader consults the one file ".ignore": a rule set a call has
\* loaded is that of ".ignore", and whenever ".ignore" is missing the call
\* allows everything, whatever other files the project root holds.
C23_SingleIgnoreFile ==
  \A i \in Invocations :
    DoneStable(i) =>
      /\ i.ig # "null" => i.ig = files[".ignore"]
      /\ files[".ignore"] = "none" => AllAllowed(i)

\* The rule set the loader returns when the ignore files do not change
\* while it runs: that of the first candidate that exists, or null.
loadAiIgnore(v, fs) ==
  LET names == ignoreFiles(v)
      found == {k \in 1..Len(names) : fs[names[k]] # "none"}
  IN
  IF found = {} THEN "null"
  ELSE fs[names[CHOOSE k \in found : \A j \in found : k <= j]]

\* The call runs the loader: it is not over before isPathBlocked or
\* filterResults gets to it.
Loads(i) ==
  \/ i.hook = "isPathBlocked"
  \/ i.hook = "before" /\ beforeEntry(i.tool, i.args).next = "load"
  \/ i.hook = "after" /\ afterEntry(i.tool) = "load"

\* The call ended as a call on the rule set ig ends.
EndedAsUnder(i, ig) ==
  /\ i.ig = ig
  /\ outcomeOf([i EXCEPT !.ig = ig])
       = [kind |-> i.kind, error |-> i.error, verdict |-> i.verdict,
          result |-> i.result, heap |-> i.heap]

\* C24: whatever was written to the ignore files before, a pre-execution
\* check, an isPathBlocked call or a post-execution filtering that starts
\* after the last write decides by the rule set of the files as they are
\* now, never by that of an earlier content.
C24_NoStalePolicy ==
  \A i \in Invocations :
    (DoneStable(i) /\ Loads(i)) => EndedAsUnder(i, loadAiIgnore(variant, files))

\* The project root held no ignore file at first; ".ignore" was then
\* written with rule set C, and a read of "s.j" that started after the
\* write was denied.
C24_Witness ==
  \E i \in Invocations :
    /\ DoneStable(i) /\ Loads(i)
    /\ files[".ignore"] = "C" /\ i.ig = "C"
    /\ i.hook = "before" /\ i.tool = "read" /\ i.args.filePath = P_secret
    /\ i.kind = "throw" /\ i.verdict = "true"

\* A pre-execution invocation of a tool that is not in the table, of read,
\* write or edit without filePath, or of a path that is literally ".".
SkipOrRoot(i) ==
  /\ i.hook = "before"
  /\ \/ ~i.pathInfo.some
     \/ i.pathInfo.path = <<DOT>>

\* The invocation is over, it returned, and the loader never ran in it.
ReturnedUnloaded(i) ==
  /\ i.pc = "done"
  /\ i.kind = "return"
  /\ i.error = <<>>
  /\ i.ig = "null"
  /\ i.cand = 1

\* C26: the hook extracts the path and tests it against "." before it
\* touches the ignore file: an invocation that is skipped or is of the path
\* "." is never at the existence check, the read or the match; it returns
\* normally, whatever the ignore files hold.
C26_OrderingBeforeLoad ==
  \A i \in Invocations : SkipOrRoot(i) => ReturnedUnloaded(i)

\* A bash call that carries filePath "s.j" returned while ".ignore" held
\* "*.j", which blocks "s.j".
C26_Witness ==
  \E i \in Invocations :
    /\ SkipOrRoot(i)
    /\ i.tool = "bash" /\ i.args.filePath = P_secret
    /\ files[".ignore"] = "A" /\ ignores(FileLines["A"], P_secret)
    /\ ReturnedUnloaded(i)

\* The rule set of ".aiignore" if that file exists, else that of ".ignore"
\* if that one exists, else none.
FirstCandidate(fs) ==
  IF fs[".aiignore"] # "none" THEN fs[".aiignore"]
  ELSE IF fs[".ignore"] # "none" THEN fs[".ignore"]
  ELSE "null"

RemovedBeforeRead(v, fs, i) ==
  /\ i.pc = "read"
  /\ fs[ignoreFiles(v)[i.cand]] = "none"

\* The read that follows ends the call in its error.
RemovalEndsInReadError ==
  \A p \in DOMAIN inv :
    (RemovedBeforeRead(variant, files, inv[p]) /\ inv'[p].pc # "read")
      => /\ inv'[p].pc = "done"
         /\ ReadError(inv'[p])

\* A call that ended in the error of the read saw the file exist, ran
\* while an ignore file was written, and has neither a verdict nor a
\* result nor a rule set.
ReadErrorIsNoVerdict ==
  \A i \in Invocations :
    ReadError(i) =>
      /\ i.present /\ ~i.stable
      /\ i.verdict = "none"
      /\ i.result = NoResult
      /\ i.ig = "null"

\* The invocation is between the existence check and the read only after
\* the check found the file.
ReadFollowsExists ==
  \A i \in Invocations : i.pc = "read" => i.present

\* C28: the loader checks that the file exists and reads it in two steps;
\* when the file is removed between the two, the call, be it a
\* pre-execution check, an isPathBlocked call or a post-execution
\* filtering, ends in the error of the read: it does not go on without a
\* rule set and it gives no verdict, neither allow nor deny.
C28_ExistsReadRace ==
  /\ [](ReadFollowsExists /\ ReadErrorIsNoVerdict)
  /\ [][RemovalEndsInReadError]_vars

\* An isPathBlocked call on "i.t" found ".ignore", which was removed before
\* the read: the call threw and returned neither true nor false.
C28_Witness ==
  \E i \in Invocations :
    /\ IsPathBlockedDone(i) /\ i.pathInfo.path = P_index
    /\ ReadError(i)
    /\ \A n \in FileNames : files[n] = "none"
    /\ i.verdict \notin {"true", "false"}

\* The result of the filtering is that of the tool's filter under the one
\* rule set the invocation loaded, for every entry of the list.
FilteredByOwnRules(i) ==
  /\ i.kind = "return"
  /\ i.result = filterResultsWith(i.tool, i.output, TRUE, loadedRules(i), ProjectRoot)

\* C29: the post-execution hook of a glob or grep call loads the rule set
\* itself, whatever the pre-execution check of the call had loaded: if no
\* ignore file is written while it runs, its rule set is that of the file
\* as it is now, also when the file was written after the pre-execution
\* check; and whenever ignore files are written, every entry of its result
\* is judged by the one rule set it loaded.
C29_IndependentSnapshot ==
  \A i \in Invocations :
    (After(i) /\ i.tool \in {"glob", "grep"})
      => /\ i.stable => i.ig = loadAiIgnore(variant, files)
         /\ i.ig # "null" => FilteredByOwnRules(i)

\* The pre-execution check of a glob of "d" ran without an ignore file and
\* let the call pass; then ".ignore" was written with "s.j" and "d"; the
\* post-execution hook dropped "s.j" from the result of the call.
C29_Witness ==
  /\ DOMAIN inv = ProcsCall
  /\ inv["pre"].pc = "done" /\ inv["pre"].tool = "glob"
  /\ inv["pre"].args.path = P_dir
  /\ inv["pre"].ig = "null" /\ inv["pre"].kind = "return"
  /\ After(inv["post"]) /\ inv["post"].tool = "glob"
  /\ inv["post"].ig = "C"
  /\ inv["post"].output.files = Arr(<<P_secret, P_index>>)
  /\ inv["post"].result.files = Arr(<<P_index>>)

----------------------------------------------------------------------------
(* C25: concurrent invocations *)

\* The call ended as it ends when it runs alone on the ignore files as they
\* are: by their rule set if it runs the loader, otherwise by returning,
\* the post-execution hook with the result it was given.
EndedAsAlone(i) ==
  IF Loads(i) THEN EndedAsUnder(i, loadAiIgnore(variant, files))
  ELSE /\ i.kind = "return"
       /\ i.hook = "after" => i.result = i.output

AloneOutcome == \A i \in Invocations : i.pc = "done" => EndedAsAlone(i)

\* A step of one caller's invocation leaves the other caller's invocation
\* and the ignore files as they are.
NoInterference ==
  \A p \in DOMAIN inv :
    inv'[p] # inv[p] =>
      /\ \A q \in DOMAIN inv \ {p} : inv'[q] = inv[q]
      /\ files' = files
      /\ variant' = variant

\* C25: while the ignore files stay as they are, and whatever the
\* interleaving of the steps of two callers' pre- and post-execution
\* invocations, each invocation ends as it ends when it runs alone, and no
\* step of one invocation, also one that ends in a denial or an error,
\* changes anything of the other.
C25_Independence == []AloneOutcome /\ [][NoInterference]_vars

\* One caller's read of "s.j" was denied while the other caller's grep
\* result was in the filter; the filter dropped the match in "s.j" and the
\* one in "../x" as it does alone.
C25_Witness ==
  /\ DOMAIN inv = ProcsPar
  /\ inv["p1"].pc = "done" /\ inv["p1"].hook = "before"
  /\ inv["p1"].tool = "read" /\ inv["p1"].args.filePath = P_secret
  /\ inv["p1"].kind = "throw" /\ inv["p1"].verdict = "true"
  /\ inv["p2"].pc = "done" /\ inv["p2"].hook = "after" /\ inv["p2"].tool = "grep"
  /\ inv["p2"].ig # "null"
  /\ inv["p2"].result.matches = Arr(<<>>)

----------------------------------------------------------------------------
(* C30: redaction as a selection *)

\* out is a subsequence of in: the entries of in at some positions, each
\* once and as it is, in their order in in.
IsSubsequence(out, in) == \E keep \in SUBSET (1..Len(in)) : IsSelection(out, in, keep)

\* The post-execution filter of the tool, under the rule set the invocation
\* loaded, applied to the result r.
filteredAgain(i, r) == filterResultsWith(i.tool, r, TRUE, loadedRules(i), ProjectRoot)

\* C30: under a loaded rule set the files list of a filtered glob result
\* and the matches list of a filtered grep result are subsequences of the
\* list the hook was given, and the filter applied to the filtered result,
\* under the same rule set, returns the same result.
C30_IdempotentSelection ==
  \A i \in Invocations :
    /\ (Filtered(i, "glob") /\ isArray(i.output.files))
         => /\ isArray(i.result.files)
            /\ IsSubsequence(i.result.files.items, i.output.files.items)
            /\ filteredAgain(i, i.result) = i.result
    /\ (Filtered(i, "grep") /\ isArray(i.output.matches))
         => /\ isArray(i.result.matches)
            /\ IsSubsequence(i.result.matches.items, i.output.matches.items)
            /\ filteredAgain(i, i.result) = i.result

\* Two allowed entries, "a.l.j" before "i.t", came back in that order
\* under rule set A, and filtering them again changes nothing.
C30_Witness ==
  \E i \in Invocations :
    /\ Filtered(i, "glob") /\ i.ig = "A"
    /\ i.output.files = Arr(<<P_local, P_index>>)
    /\ i.result.files = Arr(<<P_local, P_index>>)
    /\ filteredAgain(i, i.result) = i.result

====
